---- MODULE Spec2Model ----
(***************************************************************************)
(* The favorites store of the Weather Dashboard CLI (src/src/utils.py):    *)
(* the persisted favorites document and the four operations on it,         *)
(* load_favorites, save_favorites, save_favorite (add) and remove_favorite.*)
(*                                                                         *)
(* A city name is a sequence of characters.  The Python string methods the *)
(* store uses (str.strip, str.lower, str.title) and the JSON encoding of   *)
(* the document (json.dump / json.load) are modelled character by          *)
(* character on a small alphabet that holds an ordinary cased letter       *)
(* (a/A), whitespace, and the dotless i (U+0131), whose title-case form I  *)
(* lowercases to the dotted i and not back to U+0131.                      *)
(***************************************************************************)
EXTENDS Integers, Sequences, FiniteSets, TLC

\* The longest favorites list the calls build.
MaxFavs == 2

----------------------------------------------------------------------------
\* Characters.

DOTLESS == "dotless_i"      \* U+0131 LATIN SMALL LETTER DOTLESS I
ESC_DOTLESS == "u0131"      \* its JSON escape, backslash u0131

LowerLetters == {"a", "i", "l", "o", "n", "d", DOTLESS}
UpperLetters == {"A", "I", "L", "O", "N", "D"}

\* str.isspace, one character
IsSpace(c) == c = " "

\* the Unicode property Cased, one character
IsCased(c) == c \in LowerLetters \cup UpperLetters

\* str.lower, one character.  U+0131 is already lowercase.
LowerChar(c) ==
  CASE c = "A" -> "a"
    [] c = "I" -> "i"
    [] c = "L" -> "l"
    [] c = "O" -> "o"
    [] c = "N" -> "n"
    [] c = "D" -> "d"
    [] OTHER -> c

\* the title-case mapping of one character.  U+0131 maps to I.
TitleChar(c) ==
  CASE c = "a" -> "A"
    [] c = "i" -> "I"
    [] c = DOTLESS -> "I"
    [] c = "l" -> "L"
    [] c = "o" -> "O"
    [] c = "n" -> "N"
    [] c = "d" -> "D"
    [] OTHER -> c

----------------------------------------------------------------------------
\* Python string methods on names (sequences of characters).

\* s.strip(): drop leading and trailing whitespace, keep the inside.
str_strip(s) ==
  LET keep == {k \in 1..Len(s) : ~IsSpace(s[k])}
  IN  IF keep = {} THEN <<>>
      ELSE LET first == CHOOSE k \in keep : \A j \in keep : k <= j
               last == CHOOSE k \in keep : \A j \in keep : j <= k
           IN  SubSeq(s, first, last)

\* s.lower()
str_lower(s) == [k \in 1..Len(s) |-> LowerChar(s[k])]

\* s.title(): a character that follows a cased character is lowercased,
\* every other character gets its title-case mapping.
str_title(s) ==
  [k \in 1..Len(s) |->
     IF k > 1 /\ IsCased(s[k - 1]) THEN LowerChar(s[k]) ELSE TitleChar(s[k])]

----------------------------------------------------------------------------
\* The persisted document and its JSON encoding.

\* json.dump writes a string with ensure_ascii: a non-ASCII character is
\* written as its \uXXXX escape.
json_dump_str(s) ==
  [k \in 1..Len(s) |-> IF s[k] = DOTLESS THEN ESC_DOTLESS ELSE s[k]]

\* json_load_str that leaves an escape as it is written
json_load_str_raw(j) == j

\* json.load reads a string: an escape is decoded, a raw character is kept.
json_load_str(j) ==
  [k \in 1..Len(j) |-> IF j[k] = ESC_DOTLESS THEN DOTLESS ELSE j[k]]

json_dump_list(favorites) ==
  [k \in 1..Len(favorites) |-> json_dump_str(favorites[k])]

json_load_list(items) ==
  [k \in 1..Len(items) |-> json_load_str(items[k])]

\* A document: what is at the path FAVORITES_FILE.
\*   absent       no file
\*   unreadable   the path cannot be opened (a directory, no permission)
\*   undecodable  bytes that are not UTF-8
\*   malformed    text that is not JSON (also an empty or truncated file)
\*   nonobject    JSON whose top-level value is not an object
\*   object       a JSON object; key says whether it has "favorites";
\*                vtype is the type of that value: "list" (of strings, in
\*                items), "null", or "numlist" (a list holding a number)
Doc(kind, key, vtype, items) ==
  [kind |-> kind, key |-> key, vtype |-> vtype, items |-> items]

AbsentDoc == Doc("absent", FALSE, "none", <<>>)
UnreadableDoc == Doc("unreadable", FALSE, "none", <<>>)
UndecodableDoc == Doc("undecodable", FALSE, "none", <<>>)
MalformedDoc == Doc("malformed", FALSE, "none", <<>>)
NonObjectDoc == Doc("nonobject", FALSE, "none", <<>>)
NoKeyDoc == Doc("object", FALSE, "none", <<>>)
NullDoc == Doc("object", TRUE, "null", <<>>)
NumListDoc == Doc("object", TRUE, "numlist", <<>>)

\* the document json.dump({"favorites": favorites}, f, indent=2) writes
FavoritesDoc(favorites) ==
  Doc("object", TRUE, "list", json_dump_list(favorites))

\* What a call hands back: res is "list" with the value loaded (vtype and
\* items), "True", "False", or the name of the exception that escapes.
Ret(res, vtype, items) == [res |-> res, vtype |-> vtype, items |-> items]
RetBool(b) == Ret(IF b THEN "True" ELSE "False", "none", <<>>)
RetRaise(exc) == Ret(exc, "none", <<>>)
NoRet == Ret("none", "none", <<>>)

----------------------------------------------------------------------------
\* The operations of the store, as functions of the document d.

\* load_favorites(): the value returned, or the exception that escapes.
\* Only json.JSONDecodeError and IOError are caught.
load_favorites(d) ==
  CASE d.kind = "absent" -> Ret("list", "list", <<>>)
    [] d.kind = "unreadable" -> Ret("list", "list", <<>>)
    [] d.kind = "undecodable" -> RetRaise("UnicodeDecodeError")
    [] d.kind = "malformed" -> Ret("list", "list", <<>>)
    [] d.kind = "nonobject" -> RetRaise("AttributeError")
    [] d.kind = "object" /\ ~d.key -> Ret("list", "list", <<>>)
    [] d.kind = "object" /\ d.key /\ d.vtype = "list" ->
         Ret("list", "list", json_load_list(d.items))
    [] OTHER -> Ret("list", d.vtype, <<>>)

\* save_favorites(favorites): the boolean returned and the document left
\* behind.  io is what the file system does: "ok", "open_fail" (open raises,
\* nothing is touched) or "write_fail" (the file was opened for writing,
\* hence truncated, and the write or the close raises).
WriteIo(io, d) == IF d.kind = "unreadable" THEN "open_fail" ELSE io

\* save_favorites that opens the file to append: what it writes behind an
\* existing document leaves text that is not JSON
save_favorites_appending(favorites, io, d) ==
  CASE WriteIo(io, d) = "ok" ->
         [ret |-> RetBool(TRUE),
          doc |-> IF d.kind = "absent" THEN FavoritesDoc(favorites)
                  ELSE MalformedDoc]
    [] WriteIo(io, d) = "open_fail" ->
         [ret |-> RetBool(FALSE), doc |-> d]
    [] OTHER ->
         [ret |-> RetBool(FALSE), doc |-> MalformedDoc]

\* save_favorites whose except branch also returns True
save_favorites_always_true(favorites, io, d) ==
  CASE WriteIo(io, d) = "ok" ->
         [ret |-> RetBool(TRUE), doc |-> FavoritesDoc(favorites)]
    [] WriteIo(io, d) = "open_fail" ->
         [ret |-> RetBool(TRUE), doc |-> d]
    [] OTHER ->
         [ret |-> RetBool(TRUE), doc |-> MalformedDoc]

save_favorites(favorites, io, d) ==
  CASE WriteIo(io, d) = "ok" ->
         [ret |-> RetBool(TRUE), doc |-> FavoritesDoc(favorites)]
    [] WriteIo(io, d) = "open_fail" ->
         [ret |-> RetBool(FALSE), doc |-> d]
    [] OTHER ->
         [ret |-> RetBool(FALSE), doc |-> MalformedDoc]

\* city_normalized without the strip()
city_normalized_no_strip(city) == str_title(city)

\* city_normalized without the title()
city_normalized_no_title(city) == str_strip(city)

\* line 173: city.strip().title()
city_normalized(city) == str_title(str_strip(city))

\* already_in_favorites without the .lower() on either side
already_in_favorites_case_sensitive(favorites, normalized) ==
  \E k \in 1..Len(favorites) : favorites[k] = normalized

\* line 176: any(fav.lower() == city_normalized.lower() for fav in favorites)
already_in_favorites(favorites, normalized) ==
  \E k \in 1..Len(favorites) : str_lower(favorites[k]) = str_lower(normalized)

\* save_favorite(city): ret is the result, doc the document left behind,
\* wrote says whether save_favorites was called.  The result of
\* save_favorites is dropped.
save_favorite(city, io, d) ==
  LET loaded == load_favorites(d)
  IN  CASE loaded.res # "list" ->
             [ret |-> loaded, doc |-> d, wrote |-> FALSE]
        [] loaded.res = "list" /\ loaded.vtype = "null" ->
             [ret |-> RetRaise("TypeError"), doc |-> d, wrote |-> FALSE]
        [] loaded.res = "list" /\ loaded.vtype = "numlist" ->
             [ret |-> RetRaise("AttributeError"), doc |-> d, wrote |-> FALSE]
        [] OTHER ->
             IF already_in_favorites(loaded.items, city_normalized(city))
             THEN [ret |-> RetBool(FALSE), doc |-> d, wrote |-> FALSE]
             ELSE [ret |-> RetBool(TRUE),
                   doc |-> save_favorites(
                             Append(loaded.items, city_normalized(city)),
                             io, d).doc,
                   wrote |-> TRUE]

\* city_lower without the strip()
city_lower_no_strip(city) == str_lower(city)

\* line 195: city.strip().lower()
city_lower(city) == str_lower(str_strip(city))

\* FirstMatch without the .lower() on the entry
FirstMatch_case_sensitive(favorites, ident) ==
  LET hits == {k \in 1..Len(favorites) : favorites[k] = ident}
  IN  IF hits = {} THEN 0 ELSE CHOOSE k \in hits : \A j \in hits : k <= j

\* lines 198-199: the first index i with favorites[i].lower() == city_lower,
\* 0 if the loop ends without one
FirstMatch(favorites, ident) ==
  LET hits == {k \in 1..Len(favorites) : str_lower(favorites[k]) = ident}
  IN  IF hits = {} THEN 0 ELSE CHOOSE k \in hits : \A j \in hits : k <= j

\* favorites.pop() without the index: drops the last entry
Pop_last(favorites, i) == SubSeq(favorites, 1, Len(favorites) - 1)

\* line 200: favorites.pop(i)
Pop(favorites, i) ==
  [k \in 1..(Len(favorites) - 1) |->
     IF k < i THEN favorites[k] ELSE favorites[k + 1]]

\* remove_favorite(city)
remove_favorite(city, io, d) ==
  LET loaded == load_favorites(d)
  IN  CASE loaded.res # "list" ->
             [ret |-> loaded, doc |-> d, wrote |-> FALSE]
        [] loaded.res = "list" /\ loaded.vtype = "null" ->
             [ret |-> RetRaise("TypeError"), doc |-> d, wrote |-> FALSE]
        [] loaded.res = "list" /\ loaded.vtype = "numlist" ->
             [ret |-> RetRaise("AttributeError"), doc |-> d, wrote |-> FALSE]
        [] OTHER ->
             LET i == FirstMatch(loaded.items, city_lower(city))
             IN  IF i = 0
                 THEN [ret |-> RetBool(FALSE), doc |-> d, wrote |-> FALSE]
                 ELSE [ret |-> RetBool(TRUE),
                       doc |-> save_favorites(Pop(loaded.items, i), io, d).doc,
                       wrote |-> TRUE]

----------------------------------------------------------------------------
\* The state machine: one document, and a sequence of calls on it.

VARIABLES
  doc,        \* the persisted document
  prev,       \* the document before the last call
  lastOp,     \* the last call: "none", "load", "save", "add", "remove"
  lastCity,   \* its argument, for add and remove
  lastFavs,   \* its argument, for save
  lastIo,     \* what the file system did to its write; "none": no write
  lastRet,    \* what it returned or raised
  scenario,   \* progress along the trace add london, add LONDON, remove
              \* London, remove London; with several processes, along the
              \* race of two add calls
  API_KEY,    \* utils.API_KEY, read from the environment at import
  call,       \* the last call into the fetch facade or the presentation layer
  out,        \* what that call returned, requested and printed
  proc        \* the concurrent processes: each one's position in its call

\* the store and the history of the calls on it
storeVars == <<doc, prev, lastOp, lastCity, lastFavs, lastIo, lastRet, scenario>>

\* the fetch facade and the presentation layer
cliVars == <<API_KEY, call, out>>

\* the processes that share the document
concVars == <<proc>>

vars == <<doc, prev, lastOp, lastCity, lastFavs, lastIo, lastRet, scenario,
          API_KEY, call, out, proc>>

\* every sequence over S of length at most n
SeqsUpTo(S, n) == UNION {[1..m -> S] : m \in 0..n}

\* no two entries of favorites have the same lowercase form
UniqueByIdentity(favorites) ==
  \A j, k \in 1..Len(favorites) :
    str_lower(favorites[j]) = str_lower(favorites[k]) => j = k

london == <<"l", "o", "n", "d", "o", "n">>
LONDON == <<"L", "O", "N", "D", "O", "N">>
London == <<"L", "o", "n", "d", "o", "n">>

\* the names given to add and remove: case variants, surrounding and inner
\* whitespace, a blank name, the dotless i and the dotted i
Names ==
  {<<"a">>, <<"A">>, <<" ", "a", " ">>, <<"a", " ", "A">>, <<" ">>,
   <<DOTLESS>>, <<DOTLESS, " ">>, <<"i">>, london, LONDON, London}

\* the lists given to save: unique by identity, as the data model requires,
\* their entries not necessarily title-cased
SaveEntries == {<<"a">>, <<"A">>, <<DOTLESS>>}
SaveLists == {L \in SeqsUpTo(SaveEntries, MaxFavs) : UniqueByIdentity(L)}

\* the lists of the well-formed documents the store starts on
InitEntries == {<<"a">>, <<"A">>, <<"I">>}
InitLists == {L \in SeqsUpTo(InitEntries, MaxFavs) : UniqueByIdentity(L)}

IoOutcomes == {"ok", "open_fail", "write_fail"}

InitDocs ==
  {AbsentDoc, UnreadableDoc, UndecodableDoc, MalformedDoc, NonObjectDoc,
   NoKeyDoc, NullDoc, NumListDoc}
  \cup {FavoritesDoc(L) : L \in InitLists}

\* the store starts empty: no document, or a document holding no favorite
StartsEmpty(d) == d = AbsentDoc \/ d = FavoritesDoc(<<>>)

\* the next position along the trace, or "off" once the calls leave it or a
\* write fails
ScenarioStep(sc, op, city, io) ==
  CASE io \in {"open_fail", "write_fail"} -> "off"
    [] sc = "start" /\ op = "add" /\ city = london -> "added"
    [] sc = "added" /\ op = "add" /\ city = LONDON -> "again"
    [] sc = "again" /\ op = "remove" /\ city = London -> "removed"
    [] sc = "removed" /\ op = "remove" /\ city = London -> "gone"
    [] OTHER -> "off"

----------------------------------------------------------------------------
\* The weather fetch facade (utils.get_current_weather, utils.get_forecast).

\* A Python value: None, True, False, an exit code, or a parsed JSON body.
\* The kinds of a body: "snapshot" (a current-conditions object with every
\* field the display reads), "forecast" (a forecast object: the city name
\* and the list of entries, each entry given by its dt_txt), "object" (a
\* JSON object without those fields), "None" (the JSON text null).
Val(kind, name, list) == [kind |-> kind, name |-> name, list |-> list]
None == Val("None", <<>>, <<>>)
Bool(b) == Val(IF b THEN "True" ELSE "False", <<>>, <<>>)
Snapshot(name) == Val("snapshot", name, <<>>)
Forecast(name, list) == Val("forecast", name, list)
EmptyObject == Val("object", <<>>, <<>>)
NotJson == Val("notjson", <<>>, <<>>)

\* What the network does to the one request of a call: a response with a
\* status and a body, or an exception raised by requests.get.  jsonerr is
\* what response.json() raises on a body that is not JSON: requests 2.27 and
\* later raise requests.JSONDecodeError, earlier versions a plain ValueError.
Net(kind, status, body, jsonerr) ==
  [kind |-> kind, status |-> status, body |-> body, jsonerr |-> jsonerr]
Response(status, body) == Net("response", status, body, "none")
Transport(exc) == Net(exc, 0, None, "none")
NoNet == Net("none", 0, None, "none")

\* the classes an exception is an instance of
Bases(exc) ==
  CASE exc = "HTTPError" -> {"HTTPError", "RequestException"}
    [] exc = "ConnectionError" -> {"ConnectionError", "RequestException"}
    [] exc = "ConnectTimeout" ->
         {"ConnectTimeout", "ConnectionError", "Timeout", "RequestException"}
    [] exc = "ReadTimeout" -> {"ReadTimeout", "Timeout", "RequestException"}
    [] exc = "TooManyRedirects" -> {"TooManyRedirects", "RequestException"}
    [] exc = "JSONDecodeError" ->
         {"JSONDecodeError", "RequestException", "ValueError"}
    [] OTHER -> {exc}

\* the except clause that handles exc: the first of clauses that names one of
\* its classes, "none" if it escapes
Handler(clauses, exc) ==
  LET hits == {k \in 1..Len(clauses) : clauses[k] \in Bases(exc)}
  IN  IF hits = {} THEN "none"
      ELSE clauses[CHOOSE k \in hits : \A j \in hits : k <= j]

\* get_api_key whose check is dropped
get_api_key_unchecked(key) == [exc |-> "none", value |-> key]

\* get_api_key(): the key, or ValueError when API_KEY is empty
get_api_key(key) ==
  IF key = "" THEN [exc |-> "ValueError", value |-> ""]
  ELSE [exc |-> "none", value |-> key]

\* response.json() that rejects an object without the expected fields
response_json_validated(net) ==
  IF net.body.kind = "notjson" THEN [exc |-> net.jsonerr, value |-> None]
  ELSE IF net.body.kind = "object" THEN [exc |-> "none", value |-> None]
  ELSE [exc |-> "none", value |-> net.body]

\* response.json(): the parsed body, or the exception on a body not JSON
response_json(net) ==
  IF net.body.kind = "notjson" THEN [exc |-> net.jsonerr, value |-> None]
  ELSE [exc |-> "none", value |-> net.body]

\* the try body of both fetches: requests.get, raise_for_status, json
TryRequest(net) ==
  IF net.kind # "response" THEN [exc |-> net.kind, value |-> None]
  ELSE IF net.status >= 400 /\ net.status < 600
       THEN [exc |-> "HTTPError", value |-> None]
       ELSE response_json(net)

\* the GET a call issues: path under BASE_URL, the q parameter, the timeout
Get(path, city, key) ==
  [path |-> path, q |-> city, appid |-> key, units |-> "imperial",
   timeout |-> 10]

\* requests_get that tries a second time when the first request failed
requests_get_retry(path, city, key, net) ==
  IF net.kind = "response" /\ net.status < 400
  THEN <<Get(path, city, key)>>
  ELSE <<Get(path, city, key), Get(path, city, key)>>

\* the requests of one call: one requests.get, whatever comes back
requests_get(path, city, key, net) == <<Get(path, city, key)>>

\* What a fetch hands back: the value returned (or the exception escaping),
\* the GETs issued, and the diagnostics printed.
Fetched(ret, exc, gets, printed) ==
  [ret |-> ret, exc |-> exc, gets |-> gets, printed |-> printed]

\* the except clauses of get_current_weather that also print on a 404
current_except_loud(clause, status) ==
  CASE clause = "HTTPError" -> <<"HTTP Error">>
    [] clause = "ConnectionError" -> <<"Connection error">>
    [] clause = "Timeout" -> <<"Timeout">>
    [] clause = "RequestException" -> <<"Error fetching weather data">>
    [] OTHER -> <<>>

\* lines 69-82: what each except clause of get_current_weather prints
current_except(clause, status) ==
  CASE clause = "HTTPError" ->
         IF status = 404 THEN <<>> ELSE <<"HTTP Error">>
    [] clause = "ConnectionError" -> <<"Connection error">>
    [] clause = "Timeout" -> <<"Timeout">>
    [] clause = "RequestException" -> <<"Error fetching weather data">>
    [] OTHER -> <<>>

\* the except clauses of get_forecast with a silent Timeout clause
forecast_except_silent(clause, status) ==
  CASE clause = "ConnectionError" -> <<"Connection error">>
    [] clause = "RequestException" -> <<"Error fetching forecast data">>
    [] OTHER -> <<>>

\* lines 111-121: what each except clause of get_forecast prints
forecast_except(clause, status) ==
  CASE clause = "HTTPError" -> <<>>
    [] clause = "ConnectionError" -> <<"Connection error">>
    [] clause = "Timeout" -> <<"Timeout">>
    [] clause = "RequestException" -> <<"Error fetching forecast data">>
    [] OTHER -> <<>>

\* the except clauses of both fetches, in their order
ExceptClauses ==
  <<"HTTPError", "ConnectionError", "Timeout", "RequestException">>

\* the try statement of both fetches: r is what the try body did, gets the
\* requests it issued, clause the except clause that handles its exception
\* and printed what that clause prints
TryExcept(r, gets, clause, printed) ==
  IF r.exc = "none" THEN Fetched(r.value, "none", gets, <<>>)
  ELSE IF clause = "none" THEN Fetched(None, r.exc, gets, <<>>)
  ELSE Fetched(None, "none", gets, printed)

\* lines 65-82: the try statement of get_current_weather
CurrentTry(r, gets, status) ==
  TryExcept(r, gets, Handler(ExceptClauses, r.exc),
            current_except(Handler(ExceptClauses, r.exc), status))

\* lines 107-121: the try statement of get_forecast
ForecastTry(r, gets, status) ==
  TryExcept(r, gets, Handler(ExceptClauses, r.exc),
            forecast_except(Handler(ExceptClauses, r.exc), status))

\* get_current_weather(city)
get_current_weather(city, key, net) ==
  IF get_api_key(key).exc = "ValueError"
  THEN Fetched(None, "none", <<>>, <<>>)
  ELSE CurrentTry(TryRequest(net),
                  requests_get("/weather", city, get_api_key(key).value, net),
                  net.status)

\* get_forecast(city)
get_forecast(city, key, net) ==
  IF get_api_key(key).exc = "ValueError"
  THEN Fetched(None, "none", <<>>, <<>>)
  ELSE ForecastTry(TryRequest(net),
                   requests_get("/forecast", city, get_api_key(key).value, net),
                   net.status)

----------------------------------------------------------------------------
\* The presentation layer (main.display_current_weather, display_forecast).

\* main.py:300: at most this many forecast entries are looked at
ForecastCap == 40

\* main.py:300: one entry in this many is shown
ForecastStep == 8

\* range(start, stop, step), step > 0
Range(start, stop, step) ==
  IF stop <= start THEN <<>>
  ELSE [k \in 1..((stop - start + step - 1) \div step) |->
          start + (k - 1) * step]

Min(a, b) == IF a <= b THEN a ELSE b

\* the rows of a table built without the cap: range(0, len(list), 8)
ForecastRows_uncapped(list) ==
  LET idx == Range(0, Len(list), ForecastStep)
  IN  [k \in 1..Len(idx) |-> list[idx[k] + 1]]

\* lines 300-314: the rows added to the table, one per index of
\* range(0, min(40, len(forecast_list)), 8)
ForecastRows(list) ==
  LET idx == Range(0, Min(ForecastCap, Len(list)), ForecastStep)
  IN  [k \in 1..Len(idx) |-> list[idx[k] + 1]]

\* one console.print: what is printed, the city it names, the table's rows
Printed(what, city, rows) == [what |-> what, city |-> city, rows |-> rows]

\* a call of a fetch by a display: the function and its argument
FetchCall(fn, city) == [fn |-> fn, city |-> city]

\* What a display hands back: the fetches it called, their requests and
\* diagnostics, the boolean returned (or the exception escaping) and the
\* console output.
Shown(fetches, f, ret, exc, console) ==
  [ret |-> ret, exc |-> exc, gets |-> f.gets, printed |-> f.printed,
   fetches |-> fetches, console |-> console]

\* lines 213-258 of display_current_weather: f is what the fetch, called
\* with asked, returned
ShowCurrent(asked, city, f) ==
  IF f.exc # "none"
  THEN Shown(<<FetchCall("get_current_weather", asked)>>, f, None, f.exc, <<>>)
  ELSE IF f.ret = None
  THEN Shown(<<FetchCall("get_current_weather", asked)>>, f, Bool(FALSE),
             "none", <<Printed("could not fetch weather", city, <<>>)>>)
  ELSE IF f.ret.kind = "snapshot"
  THEN Shown(<<FetchCall("get_current_weather", asked)>>, f, Bool(TRUE),
             "none", <<Printed("panel", f.ret.name, <<>>)>>)
  ELSE Shown(<<FetchCall("get_current_weather", asked)>>, f, None,
             "KeyError", <<>>)

\* lines 273-316 of display_forecast: f is what the fetch returned
ShowForecast(city, f) ==
  IF f.exc # "none"
  THEN Shown(<<FetchCall("get_forecast", city)>>, f, None, f.exc, <<>>)
  ELSE IF f.ret = None
  THEN Shown(<<FetchCall("get_forecast", city)>>, f, Bool(FALSE), "none",
             <<Printed("could not fetch forecast", city, <<>>)>>)
  ELSE IF f.ret.kind = "forecast"
  THEN Shown(<<FetchCall("get_forecast", city)>>, f, Bool(TRUE), "none",
             <<Printed("table", f.ret.name, ForecastRows(f.ret.list))>>)
  ELSE Shown(<<FetchCall("get_forecast", city)>>, f, None, "KeyError", <<>>)

\* display_current_weather that takes the city name from the default prompt
display_current_weather_default_city(city, key, net) ==
  ShowCurrent(<<"L", "o", "n", "d", "o", "n">>, city,
              get_current_weather(<<"L", "o", "n", "d", "o", "n">>, key, net))

\* display_current_weather(city)
display_current_weather(city, key, net) ==
  ShowCurrent(city, city, get_current_weather(city, key, net))

\* display_forecast(city)
display_forecast(city, key, net) ==
  ShowForecast(city, get_forecast(city, key, net))

----------------------------------------------------------------------------
\* The entry point (main.main) and the operations it dispatches to.

\* an int returned as exit code
ExitCode(n) == Val("int", <<>>, <<n>>)

\* argparse's None: the value of an option that was not given
NoArg == <<"None">>

\* the truth value of an option's value: None and the empty string are false
Truthy(s) == s # NoArg /\ s # <<>>

\* a or b, on option values
Or(a, b) == IF Truthy(a) THEN a ELSE b

\* the parsed command line: argc is len(sys.argv), the rest is args
Args(argc, add, remove, list, favorites, city_name, city, forecast) ==
  [argc |-> argc, add_favorite |-> add, remove_favorite |-> remove,
   list_favorites |-> list, favorites |-> favorites,
   city_name |-> city_name, city |-> city, forecast |-> forecast]

\* the branch of main taken when a flag counts as soon as it is given
Dispatch_given(args) ==
  IF args.argc = 1 THEN "interactive_mode"
  ELSE IF args.add_favorite # NoArg THEN "save_favorite"
  ELSE IF args.remove_favorite # NoArg THEN "remove_favorite"
  ELSE IF args.list_favorites THEN "display_favorites"
  ELSE IF args.favorites THEN "weather_for_favorites"
  ELSE IF Or(args.city_name, args.city) # NoArg
       THEN IF args.forecast THEN "display_forecast"
            ELSE "display_current_weather"
  ELSE "print_help"

\* lines 441-480: the branch main takes, the tests in their order
Dispatch(args) ==
  IF args.argc = 1 THEN "interactive_mode"
  ELSE IF Truthy(args.add_favorite) THEN "save_favorite"
  ELSE IF Truthy(args.remove_favorite) THEN "remove_favorite"
  ELSE IF args.list_favorites THEN "display_favorites"
  ELSE IF args.favorites THEN "weather_for_favorites"
  ELSE IF Truthy(Or(args.city_name, args.city))
       THEN IF args.forecast THEN "display_forecast"
            ELSE "display_current_weather"
  ELSE "print_help"

\* the outcome of a request that was not issued or not given
NetAt(nets, k) == IF k <= Len(nets) THEN nets[k] ELSE NoNet

\* the concatenation of the sequences seqs[1], ..., seqs[n]
RECURSIVE Concat(_, _)
Concat(seqs, n) == IF n = 0 THEN <<>> ELSE Concat(seqs, n - 1) \o seqs[n]

\* What an operation main invokes hands back: the value returned, the
\* exception escaping, the GETs issued, the console output and the document.
Done(ret, exc, gets, console, d) ==
  [ret |-> ret, exc |-> exc, gets |-> gets, console |-> console, doc |-> d]

\* lines 321-342 of display_favorites: loaded is what load_favorites gave
ListFavorites(loaded, d) ==
  IF loaded.res # "list" THEN Done(None, loaded.res, <<>>, <<>>, d)
  ELSE IF loaded.vtype # "list" \/ loaded.items = <<>>
  THEN Done(None, "none", <<>>, <<Printed("no favorites", <<>>, <<>>)>>, d)
  ELSE Done(None, "none", <<>>,
            <<Printed("favorites table", <<>>, loaded.items)>>, d)

\* display_favorites()
display_favorites(d) == ListFavorites(load_favorites(d), d)

\* lines 355-357: display_current_weather of each favorite; the k-th
\* request meets nets[k]
ShowEach(favorites, key, nets) ==
  [k \in 1..Len(favorites) |->
     display_current_weather(favorites[k], key,
                             IF key = "" THEN NoNet ELSE NetAt(nets, k))]

\* the last display of the loop: the first that raises, or the last of all
LastShown(each) ==
  IF \A k \in 1..Len(each) : each[k].exc = "none" THEN Len(each)
  ELSE CHOOSE k \in 1..Len(each) :
         /\ each[k].exc # "none"
         /\ \A j \in 1..(k - 1) : each[j].exc = "none"

\* the loop of weather_for_favorites up to its display number last
ShownUpTo(each, last, d) ==
  Done(None, each[last].exc,
       Concat([k \in 1..last |-> each[k].gets], last),
       Concat([k \in 1..last |-> each[k].console], last), d)

\* lines 347-357 of weather_for_favorites: loaded is what load_favorites gave
ShowFavorites(loaded, each, d) ==
  IF loaded.res # "list" THEN Done(None, loaded.res, <<>>, <<>>, d)
  ELSE IF loaded.vtype # "list" \/ loaded.items = <<>>
  THEN Done(None, "none", <<>>, <<Printed("no favorites", <<>>, <<>>)>>, d)
  ELSE ShownUpTo(each, LastShown(each), d)

\* weather_for_favorites()
weather_for_favorites(key, nets, d) ==
  ShowFavorites(load_favorites(d),
                ShowEach(load_favorites(d).items, key, nets), d)

\* lines 443-455: r is what save_favorite or remove_favorite did; main
\* prints one of two messages
Told(r, city, yes, no) ==
  IF r.ret.res \notin {"True", "False"}
  THEN Done(None, r.ret.res, <<>>, <<>>, r.doc)
  ELSE Done(Bool(r.ret.res = "True"), "none", <<>>,
            <<Printed(IF r.ret.res = "True" THEN yes ELSE no, city, <<>>)>>,
            r.doc)

\* a display called by main
Displayed(o, d) == Done(o.ret, o.exc, o.gets, o.console, d)

\* the operation of a branch, run: im is what interactive_mode does (it
\* returns 0, or the prompt raises at end of input or on an interrupt)
Invoke(branch, args, key, io, nets, im, d) ==
  CASE branch = "interactive_mode" ->
         IF im = "return" THEN Done(ExitCode(0), "none", <<>>, <<>>, d)
         ELSE Done(None, im, <<>>, <<>>, d)
    [] branch = "save_favorite" ->
         Told(save_favorite(args.add_favorite, io, d), args.add_favorite,
              "added", "already in favorites")
    [] branch = "remove_favorite" ->
         Told(remove_favorite(args.remove_favorite, io, d),
              args.remove_favorite, "removed", "was not in favorites")
    [] branch = "display_favorites" -> display_favorites(d)
    [] branch = "weather_for_favorites" -> weather_for_favorites(key, nets, d)
    [] branch = "display_forecast" ->
         Displayed(display_forecast(Or(args.city_name, args.city), key,
                                    NetAt(nets, 1)), d)
    [] branch = "display_current_weather" ->
         Displayed(display_current_weather(Or(args.city_name, args.city),
                                           key, NetAt(nets, 1)), d)
    [] OTHER -> Done(None, "none", <<>>, <<Printed("help", <<>>, <<>>)>>, d)

\* the argument main passes to the operation of a branch
ArgOf(branch, args) ==
  CASE branch = "save_favorite" -> args.add_favorite
    [] branch = "remove_favorite" -> args.remove_favorite
    [] branch \in {"display_forecast", "display_current_weather"} ->
         Or(args.city_name, args.city)
    [] OTHER -> NoArg

\* the exit code main returns after the operation of a branch handed back r
Returned(branch, r) ==
  CASE r.exc # "none" -> None
    [] branch = "interactive_mode" -> r.ret
    [] branch \in {"display_forecast", "display_current_weather"} ->
         IF r.ret = Bool(TRUE) THEN ExitCode(0) ELSE ExitCode(1)
    [] OTHER -> ExitCode(0)

\* main after the operation of its branch handed back r
Ran(branch, arg, r) ==
  [ret |-> Returned(branch, r), exc |-> r.exc,
   invoked |-> <<FetchCall(branch, arg)>>, results |-> <<r.ret>>,
   gets |-> r.gets, console |-> r.console, doc |-> r.doc]

\* lines 431-480, main(): the exit code returned (or the exception that
\* escapes), the operation invoked with its argument and what it handed
\* back, and the document left behind.
main(args, key, io, nets, im, d) ==
  Ran(Dispatch(args), ArgOf(Dispatch(args), args),
      Invoke(Dispatch(args), args, key, io, nets, im, d))

\* no call into the fetch facade or the presentation layer has been made
NoCall == [op |-> "none", city |-> <<>>, net |-> NoNet]
NoOut == [ret |-> None, exc |-> "none", gets |-> <<>>, printed |-> <<>>,
          fetches |-> <<>>, console |-> <<>>]
CliIdle == API_KEY = "" /\ call = NoCall /\ out = NoOut

\* no process is running
ConcIdle == proc = <<>>

\* no call on the store has been made
StoreIdle ==
  /\ prev = doc
  /\ lastOp = "none"
  /\ lastCity = <<>>
  /\ lastFavs = <<>>
  /\ lastIo = "none"
  /\ lastRet = NoRet
  /\ scenario = "off"

Init ==
  /\ doc \in InitDocs
  /\ prev = doc
  /\ lastOp = "none"
  /\ lastCity = <<>>
  /\ lastFavs = <<>>
  /\ lastIo = "none"
  /\ lastRet = NoRet
  /\ scenario = IF StartsEmpty(doc) THEN "start" ELSE "off"
  /\ CliIdle
  /\ ConcIdle

\* a call of load_favorites()
LoadCall ==
  /\ lastRet' = load_favorites(doc)
  /\ lastOp' = "load"
  /\ lastCity' = <<>>
  /\ lastFavs' = <<>>
  /\ lastIo' = "none"
  /\ prev' = doc
  /\ scenario' = "off"
  /\ UNCHANGED doc
  /\ UNCHANGED <<cliVars, concVars>>

\* a call of save_favorites(favorites)
SaveCall(favorites, io) ==
  LET r == save_favorites(favorites, io, doc)
  IN  /\ io = WriteIo(io, doc)
      /\ lastRet' = r.ret
      /\ doc' = r.doc
      /\ lastOp' = "save"
      /\ lastCity' = <<>>
      /\ lastFavs' = favorites
      /\ lastIo' = io
      /\ prev' = doc
      /\ scenario' = "off"
      /\ UNCHANGED <<cliVars, concVars>>

\* a call of save_favorite(city)
AddCall(city, io) ==
  LET r == save_favorite(city, io, doc)
  IN  /\ IF r.wrote THEN io \in IoOutcomes /\ io = WriteIo(io, doc)
                    ELSE io = "none"
      /\ r.wrote => Len(load_favorites(doc).items) < MaxFavs
      /\ lastRet' = r.ret
      /\ doc' = r.doc
      /\ lastOp' = "add"
      /\ lastCity' = city
      /\ lastFavs' = <<>>
      /\ lastIo' = io
      /\ prev' = doc
      /\ scenario' = ScenarioStep(scenario, "add", city, io)
      /\ UNCHANGED <<cliVars, concVars>>

\* a call of remove_favorite(city)
RemoveCall(city, io) ==
  LET r == remove_favorite(city, io, doc)
  IN  /\ IF r.wrote THEN io \in IoOutcomes /\ io = WriteIo(io, doc)
                    ELSE io = "none"
      /\ lastRet' = r.ret
      /\ doc' = r.doc
      /\ lastOp' = "remove"
      /\ lastCity' = city
      /\ lastFavs' = <<>>
      /\ lastIo' = io
      /\ prev' = doc
      /\ scenario' = ScenarioStep(scenario, "remove", city, io)
      /\ UNCHANGED <<cliVars, concVars>>

Next ==
  \/ LoadCall
  \/ \E favorites \in SaveLists, io \in IoOutcomes : SaveCall(favorites, io)
  \/ \E city \in Names, io \in IoOutcomes \cup {"none"} : AddCall(city, io)
  \/ \E city \in Names, io \in IoOutcomes \cup {"none"} : RemoveCall(city, io)

Spec == Init /\ [][Next]_vars

----------------------------------------------------------------------------
\* The state machine of the fetch facade and the displays: a sequence of
\* calls, each with the city given and what the network does to its request.

\* The longest forecast list a response carries.
MaxEntries == 41

\* the cities asked for: passed on as given, untrimmed
FetchCities == {London, <<" ", "a">>}

\* dt_txt of the entries of a forecast of n entries, three hours apart,
\* counted up from first or down from it
Hours(n, first, step) == [k \in 1..n |-> first + (k - 1) * step]

ForecastLists ==
  {Hours(n, 0, 3) : n \in 0..MaxEntries}
  \cup {Hours(n, 3 * MaxEntries, -3) : n \in 0..MaxEntries}

\* the bodies of the responses
CurrentBodies == {Snapshot(London), EmptyObject, None}
ForecastBodies == {Forecast(London, L) : L \in ForecastLists}
                    \cup {EmptyObject, None}

\* what the network can do to a request
Failures ==
  {Response(404, EmptyObject), Response(500, EmptyObject),
   Response(401, EmptyObject),
   Transport("ConnectionError"), Transport("ConnectTimeout"),
   Transport("ReadTimeout"), Transport("TooManyRedirects"),
   Net("response", 200, NotJson, "JSONDecodeError"),
   Net("response", 200, NotJson, "ValueError")}

CurrentNets == {Response(200, b) : b \in CurrentBodies} \cup Failures
ForecastNets == {Response(200, b) : b \in ForecastBodies} \cup Failures

\* the record of a call
Call(op, city, net) == [op |-> op, city |-> city, net |-> net]

\* a call that issues no request meets no network outcome
NetOf(o, net) == IF o.gets = <<>> THEN net = NoNet ELSE net # NoNet

InitFetch ==
  /\ API_KEY \in {"", "k"}
  /\ call = NoCall
  /\ out = NoOut
  /\ doc = AbsentDoc
  /\ StoreIdle
  /\ ConcIdle

\* a call of get_current_weather(city)
GetCurrentCall(city, net) ==
  LET f == get_current_weather(city, API_KEY, net)
  IN  /\ NetOf(f, net)
      /\ call' = Call("get_current_weather", city, net)
      /\ out' = Shown(<<>>, f, f.ret, f.exc, <<>>)
      /\ UNCHANGED <<API_KEY, storeVars, concVars>>

\* a call of get_forecast(city)
GetForecastCall(city, net) ==
  LET f == get_forecast(city, API_KEY, net)
  IN  /\ NetOf(f, net)
      /\ call' = Call("get_forecast", city, net)
      /\ out' = Shown(<<>>, f, f.ret, f.exc, <<>>)
      /\ UNCHANGED <<API_KEY, storeVars, concVars>>

\* a call of display_current_weather(city)
DisplayCurrentCall(city, net) ==
  LET o == display_current_weather(city, API_KEY, net)
  IN  /\ NetOf(o, net)
      /\ call' = Call("display_current_weather", city, net)
      /\ out' = o
      /\ UNCHANGED <<API_KEY, storeVars, concVars>>

\* a call of display_forecast(city)
DisplayForecastCall(city, net) ==
  LET o == display_forecast(city, API_KEY, net)
  IN  /\ NetOf(o, net)
      /\ call' = Call("display_forecast", city, net)
      /\ out' = o
      /\ UNCHANGED <<API_KEY, storeVars, concVars>>

NextFetch ==
  \/ \E city \in FetchCities, net \in CurrentNets \cup {NoNet} :
       GetCurrentCall(city, net)
  \/ \E city \in FetchCities, net \in ForecastNets \cup {NoNet} :
       GetForecastCall(city, net)
  \/ \E city \in FetchCities, net \in CurrentNets \cup {NoNet} :
       DisplayCurrentCall(city, net)
  \/ \E city \in FetchCities, net \in ForecastNets \cup {NoNet} :
       DisplayForecastCall(city, net)

SpecFetch == InitFetch /\ [][NextFetch]_vars

----------------------------------------------------------------------------
\* The state machine of the entry point: runs of the program, one after the
\* other, on the document the runs before left behind.

\* the command lines: every combination of the options given, not given,
\* and given as an empty string; with argc 1 nothing is given
OptionArgs ==
  {Args(2, add, remove, list, favorites, city_name, city, forecast) :
     add \in {NoArg, <<>>, <<"a">>},
     remove \in {NoArg, <<>>, <<"A">>},
     list \in BOOLEAN, favorites \in BOOLEAN,
     city_name \in {NoArg, <<>>, London},
     city \in {NoArg, <<"a">>},
     forecast \in BOOLEAN}

\* the command line of the program name alone
NoArgs == Args(1, NoArg, NoArg, FALSE, FALSE, NoArg, NoArg, FALSE)

\* the documents the first run finds
MainDocs ==
  {AbsentDoc, UndecodableDoc, NullDoc} \cup {FavoritesDoc(L) : L \in InitLists}

\* what the network does to the requests of a run
MainNets ==
  {Response(200, Snapshot(London)),
   Response(200, Forecast(London, Hours(9, 0, 3))),
   Response(404, EmptyObject)}

\* what interactive_mode does
InteractiveOutcomes == {"return", "EOFError", "KeyboardInterrupt"}

\* the outcomes a branch can meet
IoFor(branch) ==
  IF branch \in {"save_favorite", "remove_favorite"}
  THEN IoOutcomes \cup {"none"} ELSE {"none"}
NetsFor(branch, key) ==
  IF key = "" THEN {<<>>}
  ELSE IF branch \in {"display_forecast", "display_current_weather"}
  THEN SeqsUpTo(MainNets, 1)
  ELSE IF branch = "weather_for_favorites" THEN SeqsUpTo(MainNets, MaxFavs)
  ELSE {<<>>}
\* the write, if any, of the operation a command line leads to
WriteOf(args, io, d) ==
  CASE Dispatch(args) = "save_favorite" ->
         save_favorite(args.add_favorite, io, d).wrote
    [] Dispatch(args) = "remove_favorite" ->
         remove_favorite(args.remove_favorite, io, d).wrote
    [] OTHER -> FALSE

InitMain ==
  /\ API_KEY \in {"", "k"}
  /\ call = NoCall
  /\ out = NoOut
  /\ doc \in MainDocs
  /\ StoreIdle
  /\ ConcIdle

\* a run of main() that handed back r, having written or not
MainRun(args, io, nets, im, r, wrote) ==
  /\ IF wrote THEN io \in IoOutcomes /\ io = WriteIo(io, doc)
              ELSE io = "none"
  /\ (wrote /\ Dispatch(args) = "save_favorite")
       => Len(load_favorites(doc).items) < MaxFavs
  /\ Len(nets) = Len(r.gets)
  /\ call' = [op |-> "main", args |-> args, io |-> io, nets |-> nets,
              im |-> im]
  /\ out' = r
  /\ doc' = r.doc
  /\ prev' = doc
  /\ UNCHANGED <<lastOp, lastCity, lastFavs, lastIo, lastRet, scenario,
                 API_KEY, concVars>>

\* one run of main() on a command line
MainCall(args, io, nets, im) ==
  MainRun(args, io, nets, im, main(args, API_KEY, io, nets, im, doc),
          WriteOf(args, io, doc))

\* the process ends; the document stays
ExitCall ==
  /\ call # NoCall
  /\ call' = NoCall
  /\ out' = NoOut
  /\ prev' = doc
  /\ UNCHANGED <<doc, lastOp, lastCity, lastFavs, lastIo, lastRet, scenario,
                 API_KEY, concVars>>

\* a run with options or a city on the command line
OptionsRun ==
  /\ call = NoCall
  /\ \E args \in OptionArgs :
       \E io \in IoFor(Dispatch(args)),
          nets \in NetsFor(Dispatch(args), API_KEY) :
         MainCall(args, io, nets, "none")

\* a run with no argument: the interactive session
InteractiveRun ==
  /\ call = NoCall
  /\ \E im \in InteractiveOutcomes : MainCall(NoArgs, "none", <<>>, im)

NextMain ==
  \/ OptionsRun
  \/ InteractiveRun
  \/ ExitCall

SpecMain == InitMain /\ [][NextMain]_vars

----------------------------------------------------------------------------
\* Processes that share the document.  Each runs calls of save_favorite and
\* remove_favorite; between the load_favorites of a call and its
\* save_favorites the other processes take steps.  A read of the file and a
\* write of it are one step each.

\* The number of processes.
NumProcs == 2

Procs == 1..NumProcs

\* What a call does with the list it loaded: the result it will return,
\* whether it calls save_favorites, and the list it passes to it.
Decided(ret, write, towrite) ==
  [ret |-> ret, write |-> write, towrite |-> towrite]

\* save_favorite appending without the test on the loaded list
add_loaded_unchecked(city, favorites) ==
  Decided("True", TRUE, Append(favorites, city_normalized(city)))

\* lines 173-181: save_favorite after its load
add_loaded(city, favorites) ==
  IF already_in_favorites(favorites, city_normalized(city))
  THEN Decided("False", FALSE, favorites)
  ELSE Decided("True", TRUE, Append(favorites, city_normalized(city)))

\* the list remove_favorite passes on after a match at index i
Removed(favorites, i) ==
  IF i = 0 THEN Decided("False", FALSE, favorites)
  ELSE Decided("True", TRUE, Pop(favorites, i))

\* lines 195-204: remove_favorite after its load
remove_loaded(city, favorites) ==
  Removed(favorites, FirstMatch(favorites, city_lower(city)))

\* the names the processes add and remove: two that are stored alike (the
\* dotted and the dotless i) and one that is not
ConcNames == {<<"a">>, <<"i">>, <<DOTLESS>>}

\* the documents the processes start on
ConcDocs ==
  {AbsentDoc, FavoritesDoc(<<>>), FavoritesDoc(<< <<"A">> >>),
   FavoritesDoc(<< <<"I">> >>)}

\* a process: pc is "idle" before its first call, "saving" between the load
\* and the save of a call, "done" after a call; towrite is the list a
\* saving process passes to save_favorites, ret what the call returned
Process(pc, op, city, towrite, ret) ==
  [pc |-> pc, op |-> op, city |-> city, towrite |-> towrite, ret |-> ret]

IdleProcess == Process("idle", "none", <<>>, <<>>, "none")

\* the next position along the race: process 1 loads for add("a"), process
\* 2 loads for add("i"), process 1 saves, process 2 saves; "off" once the
\* steps leave it or a write fails
RaceStep(sc, p, step, city, io) ==
  CASE io \in {"open_fail", "write_fail"} -> "off"
    [] sc = "start" /\ p = 1 /\ step = "add" /\ city = <<"a">> -> "one loaded"
    [] sc = "one loaded" /\ p = 2 /\ step = "add" /\ city = <<"i">> ->
         "both loaded"
    [] sc = "both loaded" /\ p = 1 /\ step = "save" -> "one saved"
    [] sc = "one saved" /\ p = 2 /\ step = "save" -> "lost"
    [] OTHER -> "off"

InitConc ==
  /\ doc \in ConcDocs
  /\ prev = doc
  /\ lastOp = "none"
  /\ lastCity = <<>>
  /\ lastFavs = <<>>
  /\ lastIo = "none"
  /\ lastRet = NoRet
  /\ scenario = IF StartsEmpty(doc) THEN "start" ELSE "off"
  /\ CliIdle
  /\ proc = [p \in Procs |-> IdleProcess]

\* process p has loaded the favorites and decided r
Loaded(p, op, city, r) ==
  /\ Len(r.towrite) <= MaxFavs
  /\ proc' = [proc EXCEPT ![p] =
                IF r.write THEN Process("saving", op, city, r.towrite, "none")
                ELSE Process("done", op, city, <<>>, r.ret)]
  /\ scenario' = RaceStep(scenario, p, op, city, "none")
  /\ UNCHANGED <<doc, prev, lastOp, lastCity, lastFavs, lastIo, lastRet,
                 cliVars>>

\* process p calls save_favorite(city): load_favorites and the test
AddLoadStep(p, city) ==
  /\ proc[p].pc \in {"idle", "done"}
  /\ Loaded(p, "add", city, add_loaded(city, load_favorites(doc).items))

\* process p calls remove_favorite(city): load_favorites and the search
RemoveLoadStep(p, city) ==
  /\ proc[p].pc \in {"idle", "done"}
  /\ Loaded(p, "remove", city, remove_loaded(city, load_favorites(doc).items))

\* process p calls save_favorites on its list and returns True, whatever
\* save_favorites returned
SaveStep(p, io) ==
  /\ proc[p].pc = "saving"
  /\ io = WriteIo(io, doc)
  /\ doc' = save_favorites(proc[p].towrite, io, doc).doc
  /\ proc' = [proc EXCEPT ![p] =
                Process("done", proc[p].op, proc[p].city, <<>>, "True")]
  /\ scenario' = RaceStep(scenario, p, "save", proc[p].city, io)
  /\ UNCHANGED <<prev, lastOp, lastCity, lastFavs, lastIo, lastRet, cliVars>>

NextConc ==
  \/ \E p \in Procs, city \in ConcNames : AddLoadStep(p, city)
  \/ \E p \in Procs, city \in ConcNames : RemoveLoadStep(p, city)
  \/ \E p \in Procs, io \in IoOutcomes : SaveStep(p, io)

SpecConc == InitConc /\ [][NextConc]_vars

----------------------------------------------------------------------------
\* Temperature formatting (utils.py:207-217).

DEGREE == "degree"          \* U+00B0 DEGREE SIGN

\* the largest magnitude formatted, in thousandths of a degree
MaxMilli == 1100

\* A float: its sign bit, and for a finite one its magnitude as the decimal
\* literal it was read from, in thousandths.  The double nearest to a
\* literal is the literal itself ("exact") or lies just below or above it.
Float(kind, neg, milli, side) ==
  [kind |-> kind, neg |-> neg, milli |-> milli, side |-> side]

\* the eighths are doubles; no other literal of three places is
IsDyadic(milli) == milli % 125 = 0

DigitChars == <<"0", "1", "2", "3", "4", "5", "6", "7", "8", "9">>

\* str of a natural number
RECURSIVE Digits(_)
Digits(n) ==
  IF n < 10 THEN <<DigitChars[n + 1]>>
  ELSE Append(Digits(n \div 10), DigitChars[(n % 10) + 1])

\* the magnitude in tenths that the format ".1f" prints: the double's exact
\* value rounded to nearest, a tie going to the even digit
Tenths(temp) ==
  LET q == temp.milli \div 100
      r == temp.milli % 100
  IN  IF r < 50 THEN q
      ELSE IF r > 50 THEN q + 1
      ELSE IF temp.side = "below" THEN q
      ELSE IF temp.side = "above" THEN q + 1
      ELSE IF q % 2 = 0 THEN q ELSE q + 1

\* f"{temp:.1f}": the sign of the float, "inf" and "nan" for the values
\* that are not finite
FixedOne(temp) ==
  IF temp.kind = "nan" THEN <<"n", "a", "n">>
  ELSE (IF temp.neg THEN <<"-">> ELSE <<>>) \o
       (IF temp.kind = "inf" THEN <<"i", "n", "f">>
        ELSE Digits(Tenths(temp) \div 10) \o <<".">> \o
             Digits(Tenths(temp) % 10))

\* format_temperature with the format ".0f"
format_temperature_whole(temp) ==
  (IF temp.neg THEN <<"-">> ELSE <<>>) \o
  Digits((Tenths(temp) + 5) \div 10) \o <<DEGREE, "F">>

\* utils.py:217  return f"{temp:.1f}<degree sign>F"
format_temperature(temp) == FixedOne(temp) \o <<DEGREE, "F">>

\* the temperatures of the repository's tests: 25.5, -10.3, 0.0, 23.456
TestMillis == {25500, 10300, 0, 23456}

\* the sides a literal's double can lie on
Sides(milli) == IF IsDyadic(milli) THEN {"exact"} ELSE {"below", "above"}

Temps ==
  {Float("finite", neg, milli, side) :
     neg \in BOOLEAN, milli \in (0..MaxMilli) \cup TestMillis,
     side \in {"exact", "below", "above"}}
  \cup {Float("inf", neg, 0, "exact") : neg \in BOOLEAN}
  \cup {Float("nan", neg, 0, "exact") : neg \in BOOLEAN}

\* format_temperature before and after it has run on temp
FormatOf(op, temp) == [op |-> op, temp |-> temp]

\* the float to format: a literal with a side its double can lie on
InitFormat ==
  /\ API_KEY = ""
  /\ \E temp \in Temps :
       /\ temp.kind = "finite" => temp.side \in Sides(temp.milli)
       /\ call = FormatOf("given", temp)
  /\ out = NoOut
  /\ doc = AbsentDoc
  /\ StoreIdle
  /\ ConcIdle

\* the call of format_temperature(temp)
FormatCall ==
  /\ call.op = "given"
  /\ call' = FormatOf("format_temperature", call.temp)
  /\ out' = [ret |-> format_temperature(call.temp)]
  /\ UNCHANGED <<API_KEY, storeVars, concVars>>

NextFormat == FormatCall

SpecFormat == InitFormat /\ [][NextFormat]_vars

----------------------------------------------------------------------------
\* The interactive mode (main.py:119-198): the main menu loop and, inside
\* its choice 3, the favorites menu loop.  A step runs from one prompt to
\* the next.  An exception that escapes an operation, or the end of input
\* or an interrupt at a prompt, escapes interactive_mode: nothing in it
\* catches one.

\* Where interactive_mode stands: at is "main menu" or "favorites menu"
\* (the menu is shown, the choice awaited), "main branch" or "favorites
\* branch" (the choice is made, its branch not yet run), "confirm" (the
\* question after choice 1), "pause" (Press Enter to continue), "returned"
\* or "raised".
Menu(at, choice, fav_choice, city) ==
  [op |-> "interactive_mode", at |-> at, choice |-> choice,
   fav_choice |-> fav_choice, city |-> city]

\* what interactive_mode has handed back
Left(ret, exc) == [NoOut EXCEPT !.ret = ret, !.exc = exc]

MainChoices == {"1", "2", "3", "4", "5"}
FavChoices == {"1", "2", "3", "4"}

\* the city names typed at the prompts
MenuCities == {<<"a">>, <<"i">>}

\* the documents interactive_mode starts on
MenuDocs ==
  {AbsentDoc, UndecodableDoc} \cup {FavoritesDoc(L) : L \in InitLists}

InitMenu ==
  /\ API_KEY \in {"", "k"}
  /\ call = Menu("main menu", "", "", <<>>)
  /\ out = NoOut
  /\ doc \in MenuDocs
  /\ StoreIdle
  /\ ConcIdle

\* the branch ends: control is at the prompt named at, unless exc escaped
Goes(at, exc, city, d) ==
  /\ call' = Menu(IF exc = "none" THEN at ELSE "raised",
                  call.choice, call.fav_choice, city)
  /\ out' = IF exc = "none" THEN out ELSE Left(None, exc)
  /\ doc' = d
  /\ UNCHANGED <<prev, lastOp, lastCity, lastFavs, lastIo, lastRet, scenario,
                 API_KEY, concVars>>

\* r is what save_favorite or remove_favorite did, meeting io
Saved(at, r, io) ==
  /\ IF r.wrote THEN io \in IoOutcomes /\ io = WriteIo(io, doc)
                ELSE io = "none"
  /\ Goes(at, IF r.ret.res \in {"True", "False"} THEN "none" ELSE r.ret.res,
          <<>>, r.doc)

\* lines 129, 81-86: show_main_menu returns a choice
ShowMainMenu(choice) ==
  /\ call.at = "main menu"
  /\ call' = Menu("main branch", choice, "", <<>>)
  /\ UNCHANGED <<out, storeVars, API_KEY, concVars>>

\* lines 131-135: choice 1 up to the question
CurrentBranch(city, net) ==
  /\ call.at = "main branch" /\ call.choice = "1"
  /\ NetOf(display_current_weather(city, API_KEY, net), net)
  /\ Goes("confirm", display_current_weather(city, API_KEY, net).exc, city,
          doc)

\* lines 138-142: the answer to "Add this city to favorites?"
ConfirmStep(yes, io) ==
  /\ call.at = "confirm"
  /\ IF yes
     THEN /\ save_favorite(call.city, io, doc).wrote =>
               Len(load_favorites(doc).items) < MaxFavs
          /\ Saved("pause", save_favorite(call.city, io, doc), io)
     ELSE io = "none" /\ Goes("pause", "none", <<>>, doc)

\* lines 144-148: choice 2
ForecastBranch(city, net) ==
  /\ call.at = "main branch" /\ call.choice = "2"
  /\ NetOf(display_forecast(city, API_KEY, net), net)
  /\ Goes("pause", display_forecast(city, API_KEY, net).exc, <<>>, doc)

\* lines 150-152: choice 3 enters the favorites menu loop
FavoritesBranch ==
  /\ call.at = "main branch" /\ call.choice = "3"
  /\ Goes("favorites menu", "none", <<>>, doc)

\* lines 153, 106-111: show_favorites_menu returns a choice
ShowFavoritesMenu(fav_choice) ==
  /\ call.at = "favorites menu"
  /\ call' = Menu("favorites branch", call.choice, fav_choice, <<>>)
  /\ UNCHANGED <<out, storeVars, API_KEY, concVars>>

\* lines 155-157: favorites choice 1
FavListBranch ==
  /\ call.at = "favorites branch" /\ call.fav_choice = "1"
  /\ Goes("favorites menu", display_favorites(doc).exc, <<>>, doc)

\* lines 159-164: favorites choice 2
FavAddBranch(city, io) ==
  /\ call.at = "favorites branch" /\ call.fav_choice = "2"
  /\ save_favorite(city, io, doc).wrote =>
       Len(load_favorites(doc).items) < MaxFavs
  /\ Saved("favorites menu", save_favorite(city, io, doc), io)

\* lines 166-178: favorites choice 3; there is a name to type only when
\* load_favorites gave a list that is not empty
FavRemoveBranch(city, io) ==
  /\ call.at = "favorites branch" /\ call.fav_choice = "3"
  /\ IF load_favorites(doc).res # "list"
     THEN /\ io = "none" /\ city = <<>>
          /\ Goes("favorites menu", load_favorites(doc).res, <<>>, doc)
     ELSE IF load_favorites(doc).items = <<>>
     THEN /\ io = "none" /\ city = <<>>
          /\ Goes("favorites menu", "none", <<>>, doc)
     ELSE /\ city \in MenuCities
          /\ Saved("favorites menu", remove_favorite(city, io, doc), io)

\* lines 180-181: favorites choice 4 breaks out of the favorites menu loop
FavBackBranch ==
  /\ call.at = "favorites branch" /\ call.fav_choice = "4"
  /\ Goes("pause", "none", <<>>, doc)

\* lines 183-186: choice 4
AllFavoritesBranch(nets) ==
  /\ call.at = "main branch" /\ call.choice = "4"
  /\ Len(nets) = Len(weather_for_favorites(API_KEY, nets, doc).gets)
  /\ Goes("pause", weather_for_favorites(API_KEY, nets, doc).exc, <<>>, doc)

\* lines 188-192: choice 5
ExitBranch ==
  /\ call.at = "main branch" /\ call.choice = "5"
  /\ call' = Menu("returned", "5", "", <<>>)
  /\ out' = Left(ExitCode(0), "none")
  /\ UNCHANGED <<storeVars, API_KEY, concVars>>

\* lines 194-196: Enter at the pause, and the loop starts over
PauseStep ==
  /\ call.at = "pause"
  /\ call' = Menu("main menu", "", "", <<>>)
  /\ UNCHANGED <<out, storeVars, API_KEY, concVars>>

\* a prompt is waiting for input
AtPrompt ==
  \/ call.at \in {"main menu", "favorites menu", "confirm", "pause"}
  \/ call.at = "main branch" /\ call.choice \in {"1", "2"}
  \/ call.at = "favorites branch" /\ call.fav_choice = "2"
  \/ /\ call.at = "favorites branch" /\ call.fav_choice = "3"
     /\ load_favorites(doc).res = "list"
     /\ load_favorites(doc).items # <<>>

\* the input ends or the user interrupts at a prompt
PromptInterrupted(exc) ==
  /\ AtPrompt
  /\ call' = Menu("raised", call.choice, call.fav_choice, <<>>)
  /\ out' = Left(None, exc)
  /\ UNCHANGED <<storeVars, API_KEY, concVars>>

NextMenu ==
  \/ \E choice \in MainChoices : ShowMainMenu(choice)
  \/ \E city \in MenuCities, net \in MainNets \cup {NoNet} :
       CurrentBranch(city, net)
  \/ \E yes \in BOOLEAN, io \in IoOutcomes \cup {"none"} : ConfirmStep(yes, io)
  \/ \E city \in MenuCities, net \in MainNets \cup {NoNet} :
       ForecastBranch(city, net)
  \/ FavoritesBranch
  \/ \E fav_choice \in FavChoices : ShowFavoritesMenu(fav_choice)
  \/ FavListBranch
  \/ \E city \in MenuCities, io \in IoOutcomes \cup {"none"} :
       FavAddBranch(city, io)
  \/ \E city \in MenuCities \cup {<<>>}, io \in IoOutcomes \cup {"none"} :
       FavRemoveBranch(city, io)
  \/ FavBackBranch
  \/ \E nets \in SeqsUpTo(MainNets, MaxFavs) : AllFavoritesBranch(nets)
  \/ ExitBranch
  \/ PauseStep
  \/ \E exc \in {"EOFError", "KeyboardInterrupt"} : PromptInterrupted(exc)

SpecMenu == InitMenu /\ [][NextMenu]_vars

\* the branch of choice 5 has no prompt and no call that blocks: once
\* chosen it runs
SpecMenuLive == SpecMenu /\ WF_vars(ExitBranch)

----------------------------------------------------------------------------
\* What the claims speak of.

\* An escaped character read back, as any JSON reader reads it.
Unescaped(j) ==
  [k \in 1..Len(j) |-> IF j[k] = ESC_DOTLESS THEN DOTLESS ELSE j[k]]

\* The document holds a favorites list: it is a well-formed favorites
\* document, or one the store treats as the empty list.
HoldsList(d) ==
  \/ d.kind \in {"absent", "unreadable", "malformed"}
  \/ d.kind = "object" /\ (~d.key \/ d.vtype = "list")

\* The persisted favorites list of a document.
StoredList(d) ==
  IF d.kind = "object" /\ d.key /\ d.vtype = "list"
  THEN [k \in 1..Len(d.items) |-> Unescaped(d.items[k])]
  ELSE <<>>

\* The identity of a name as the specification words it: the
\* lowercase-folded trimmed name.
Identity(name) == str_lower(str_strip(name))

\* The identity of the form that is stored: the lowercase form of the
\* trimmed, title-cased name.
StoredIdentity(name) == str_lower(str_title(str_strip(name)))

\* how many entries of favorites have the lowercase form ident
CountIdentity(favorites, ident) ==
  Cardinality({k \in 1..Len(favorites) : str_lower(favorites[k]) = ident})

----------------------------------------------------------------------------
\* C1.  The persisted favorites list never holds two entries whose
\* lowercase forms are equal: in every state reached by load, save (of a
\* list unique by identity), add and remove calls from a document that is
\* absent, empty or unique by identity.
C1_UniqueIdentity == UniqueByIdentity(StoredList(doc))

\* C1 witness: add of the dotless i was refused because its stored form I is
\* already a favorite, next to a second favorite.
C1_Witness ==
  /\ lastOp = "add"
  /\ lastCity = <<DOTLESS>>
  /\ lastRet.res = "False"
  /\ Len(StoredList(doc)) = 2
  /\ \E k \in 1..2 : StoredList(doc)[k] = <<"I">>

----------------------------------------------------------------------------
----------------------------------------------------------------------------
\* C3 as claimed.  For names a and b that differ only in letter case or
\* surrounding whitespace and a store holding no entry with their identity
\* (the lowercase-folded trimmed name), add(a) followed by add(b) returns
\* true then false, leaves exactly one entry with that identity and grows
\* the list by exactly one.  The step is the second call; the unprimed
\* state records the first, whose write did not fail.
C3_AddTwiceStep ==
  ( /\ lastOp = "add" /\ lastOp' = "add"
    /\ Identity(lastCity) = Identity(lastCity')
    /\ HoldsList(prev)
    /\ CountIdentity(StoredList(prev), Identity(lastCity)) = 0
    /\ lastIo \in {"ok", "none"} )
  => /\ lastRet.res = "True"
     /\ lastRet'.res = "False"
     /\ CountIdentity(StoredList(doc'), Identity(lastCity)) = 1
     /\ Len(StoredList(doc')) = Len(StoredList(prev)) + 1

C3_AddTwiceStoredStep ==
  ( /\ lastOp = "add" /\ lastOp' = "add"
    /\ Identity(lastCity) = Identity(lastCity')
    /\ HoldsList(prev)
    /\ CountIdentity(StoredList(prev), StoredIdentity(lastCity)) = 0
    /\ lastIo = "ok" )
  => /\ lastRet.res = "True"
     /\ lastRet'.res = "False"
     /\ doc' = doc
     /\ CountIdentity(StoredList(doc'), StoredIdentity(lastCity)) = 1
     /\ Len(StoredList(doc')) = Len(StoredList(prev)) + 1

----------------------------------------------------------------------------
\* favorites without its entry i
WithoutIndex(favorites, i) ==
  SubSeq(favorites, 1, i - 1) \o SubSeq(favorites, i + 1, Len(favorites))

\* the indices of the entries of favorites with the lowercase form ident
Matches(favorites, ident) ==
  {k \in 1..Len(favorites) : str_lower(favorites[k]) = ident}

----------------------------------------------------------------------------
\* C5.  On a stored list that holds an entry with the identity of n,
\* remove(n) returns true and (its write succeeding) the list is shorter by
\* exactly one; a remove of the same identity that follows at once returns
\* false and leaves the document identical.  The step is a remove call; in
\* the second conjunct the unprimed state records the first remove.
C5_RemoveTwiceStep ==
  /\ ( /\ lastOp' = "remove"
       /\ HoldsList(doc)
       /\ Matches(StoredList(doc), Identity(lastCity')) # {} )
     => /\ lastRet'.res = "True"
        /\ lastIo' = "ok" =>
             Len(StoredList(doc')) = Len(StoredList(doc)) - 1
  /\ ( /\ lastOp = "remove" /\ lastRet.res = "True" /\ lastIo = "ok"
       /\ lastOp' = "remove"
       /\ Identity(lastCity') = Identity(lastCity) )
     => lastRet'.res = "False" /\ doc' = doc

\* C5, over every remove call and every pair of consecutive remove calls:
\* the first returns true and shortens the list by one, the second returns
\* false and leaves the document identical.
C5_RemoveTwice == [][C5_RemoveTwiceStep]_vars

\* C5 witness: London was removed, and the remove of London that followed
\* returned false on the unchanged document.
C5_Witness ==
  /\ scenario = "gone"
  /\ lastOp = "remove"
  /\ lastRet.res = "False"
  /\ doc = prev

----------------------------------------------------------------------------
\* the document {"favorites": [...]} with the given strings
FavoritesJson(strings) == Doc("object", TRUE, "list", strings)

\* C6.  From an empty store, with no write failing: add("london") returns
\* true and the document is {"favorites": ["London"]}; then add("LONDON")
\* returns false and the document is unchanged; then remove("London")
\* returns true and the document is {"favorites": []}.  The stored form is
\* the trimmed, title-cased form of the name first inserted.
C6_Trace ==
  /\ scenario = "added" =>
       lastRet.res = "True" /\ doc = FavoritesJson(<<London>>)
  /\ scenario = "again" =>
       lastRet.res = "False" /\ doc = prev /\ doc = FavoritesJson(<<London>>)
  /\ scenario = "removed" =>
       lastRet.res = "True" /\ doc = FavoritesJson(<<>>)
  /\ scenario \in {"added", "again"} =>
       StoredList(doc) = <<str_title(str_strip(london))>>

\* C6 witness: the end of the trace, London removed again.
C6_Witness ==
  /\ scenario = "removed"
  /\ lastOp = "remove"
  /\ lastCity = London
  /\ prev = FavoritesJson(<<London>>)
  /\ doc = FavoritesJson(<<>>)

----------------------------------------------------------------------------
\* C7.  load() returns the empty list, and raises nothing, when the document
\* does not exist, when it is not valid JSON (text that does not parse, or
\* bytes that are not text at all), and when it is a JSON object without
\* the key favorites; on {"favorites": L} it returns L in the stored order.
C7_LoadRecovers ==
  lastOp = "load" =>
    /\ prev.kind \in {"absent", "malformed", "undecodable"} =>
         lastRet = Ret("list", "list", <<>>)
    /\ (prev.kind = "object" /\ ~prev.key) =>
         lastRet = Ret("list", "list", <<>>)
    /\ (prev.kind = "object" /\ prev.key /\ prev.vtype = "list") =>
         lastRet = Ret("list", "list", StoredList(prev))

----------------------------------------------------------------------------
\* C8.  Round trip: a load() that follows a successful save(L), L unique by
\* identity, returns L, the same entries in the same order, whatever the
\* document held before the save.  The step is the load call; the unprimed
\* state records the save.
C8_RoundTripStep ==
  (lastOp = "save" /\ lastRet.res = "True" /\ lastOp' = "load") =>
    lastRet' = Ret("list", "list", lastFavs)

\* C8, over every load call that follows a save call: load returns the list
\* that was saved.
C8_RoundTrip == [][C8_RoundTripStep]_vars

\* C8 witness: load returned the dotless i and a lowercase a, a list only
\* save can have written, read back from its escaped form.
C8_Witness ==
  /\ lastOp = "load"
  /\ doc.items = << <<ESC_DOTLESS>>, <<"a">> >>
  /\ lastRet = Ret("list", "list", << <<DOTLESS>>, <<"a">> >>)

----------------------------------------------------------------------------
\* C9.  save(names) returns true when the document was written, and on an
\* I/O failure while opening or writing it returns false and raises nothing.
C9_SaveResult ==
  lastOp = "save" =>
    /\ lastRet.res \in {"True", "False"}
    /\ lastIo = "ok" =>
         lastRet.res = "True" /\ HoldsList(doc) /\ StoredList(doc) = lastFavs
    /\ lastIo \in {"open_fail", "write_fail"} => lastRet.res = "False"
    /\ lastIo = "open_fail" => doc = prev

\* C9 witness: the write failed after the file was opened, save returned
\* false and left a truncated document.
C9_Witness ==
  /\ lastOp = "save"
  /\ lastIo = "write_fail"
  /\ lastRet.res = "False"
  /\ Len(lastFavs) = 2
  /\ doc.kind = "malformed"

----------------------------------------------------------------------------
\* C10.  No exception crosses from the favorites store to its caller: for
\* every content of the document, load, add, remove and save complete with
\* a list or a boolean.
C10_NeverRaises ==
  /\ lastOp = "load" => lastRet.res = "list" /\ lastRet.vtype = "list"
  /\ lastOp \in {"save", "add", "remove"} => lastRet.res \in {"True", "False"}

----------------------------------------------------------------------------
\* the two fetch operations
FetchOps == {"get_current_weather", "get_forecast"}

\* the call went out with a credential and met an HTTP error status
HttpError(c) ==
  c.net.kind = "response" /\ c.net.status >= 400 /\ c.net.status < 600

\* the call returned absent: None, and no exception escaped
Absent(o) == o.ret = None /\ o.exc = "none"

\* C11.  With no API credential configured (API_KEY empty), every call of
\* get_current_weather and get_forecast returns None for every city, issues
\* no network request, and lets no exception (the ValueError of get_api_key)
\* reach the caller.
C11_NoCredential ==
  (API_KEY = "" /\ call.op \in FetchOps) =>
    Absent(out) /\ out.gets = <<>> /\ out.printed = <<>>

\* C11 witness: a forecast fetch for London without a credential came back
\* absent with no request issued.
C11_Witness ==
  /\ API_KEY = ""
  /\ call = Call("get_forecast", London, NoNet)
  /\ out.ret = None
  /\ out.gets = <<>>

----------------------------------------------------------------------------
\* C12.  get_current_weather with a credential configured: an HTTP 404
\* response yields None with no diagnostic printed; any other HTTP error
\* status yields None with exactly one diagnostic printed.
C12_CurrentHttpErrors ==
  (API_KEY # "" /\ call.op = "get_current_weather" /\ HttpError(call)) =>
    /\ Absent(out)
    /\ call.net.status = 404 => out.printed = <<>>
    /\ call.net.status # 404 => Len(out.printed) = 1

\* C12 witness: the current-conditions fetch met an HTTP 500 and printed the
\* one HTTP Error diagnostic.
C12_Witness ==
  /\ API_KEY # ""
  /\ call.op = "get_current_weather"
  /\ call.net = Response(500, EmptyObject)
  /\ out.ret = None
  /\ out.printed = <<"HTTP Error">>

----------------------------------------------------------------------------
\* C13.  The HTTP error classification is the same for both fetches:
\* get_forecast, like get_current_weather, returns None with no diagnostic
\* on HTTP 404 and returns None with a diagnostic printed on any other HTTP
\* error status.
C13_UniformHttpErrors ==
  (API_KEY # "" /\ call.op \in FetchOps /\ HttpError(call)) =>
    /\ Absent(out)
    /\ call.net.status = 404 => out.printed = <<>>
    /\ call.net.status # 404 => Len(out.printed) >= 1

----------------------------------------------------------------------------
\* the exceptions requests.get raises when the transport fails
TransportFailures ==
  {"ConnectionError", "ConnectTimeout", "ReadTimeout", "TooManyRedirects"}

\* C14.  For both fetches with a credential configured, a transport failure
\* of the request (connection failure, timeout, any other transport
\* failure) yields None together with one printed diagnostic; the value
\* returned is the same None whatever the failure.
C14_TransportFailures ==
  (API_KEY # "" /\ call.op \in FetchOps
     /\ call.net.kind \in TransportFailures) =>
    Absent(out) /\ Len(out.printed) = 1

\* C14 witness: the forecast fetch timed out reading the response, printed
\* the Timeout diagnostic and returned None.
C14_Witness ==
  /\ API_KEY # ""
  /\ call.op = "get_forecast"
  /\ call.net = Transport("ReadTimeout")
  /\ out.ret = None
  /\ out.printed = <<"Timeout">>

----------------------------------------------------------------------------
\* C15.  For both fetches, when the request succeeds (no transport failure,
\* no HTTP error status, a body that parses) the value returned is exactly
\* the parsed response body, unmodified and unvalidated, and no diagnostic
\* is printed.
C15_BodyVerbatim ==
  (API_KEY # "" /\ call.op \in FetchOps /\ call.net.kind = "response"
     /\ ~HttpError(call) /\ call.net.body.kind # "notjson") =>
    out.ret = call.net.body /\ out.exc = "none" /\ out.printed = <<>>

\* C15 witness: the current-conditions fetch returned a JSON object that
\* has none of the fields of a snapshot, as it was parsed.
C15_Witness ==
  /\ API_KEY # ""
  /\ call.op = "get_current_weather"
  /\ call.net = Response(200, EmptyObject)
  /\ out.ret = EmptyObject
  /\ out.printed = <<>>

----------------------------------------------------------------------------
\* the path each fetch requests
PathOf(op) == IF op = "get_current_weather" THEN "/weather" ELSE "/forecast"

\* C16.  Every call of get_current_weather or get_forecast issues at most
\* one GET: exactly one, for the city given, when a credential is
\* configured, and none is repeated after a timeout, a connection failure
\* or an HTTP error.
C16_OneGet ==
  call.op \in FetchOps =>
    /\ Len(out.gets) <= 1
    /\ API_KEY # "" =>
         /\ Len(out.gets) = 1
         /\ out.gets[1].path = PathOf(call.op)
         /\ out.gets[1].q = call.city

\* C16 witness: the current-conditions fetch failed to connect in time and
\* had issued its one GET.
C16_Witness ==
  /\ API_KEY # ""
  /\ call.op = "get_current_weather"
  /\ call.net = Transport("ConnectTimeout")
  /\ out.ret = None
  /\ Len(out.gets) = 1

----------------------------------------------------------------------------
\* the indices display_forecast shows of a list of n entries, as the claim
\* words them: 0, 8, 16, ... below min(40, n)
ShownIndices(n) == {i \in 0..(n - 1) : i < 40 /\ i % 8 = 0}

\* C17.  display_forecast shows one row per 8 forecast entries: of a
\* forecast list of length n exactly the entries at the indices 0, 8, 16,
\* ... below min(40, n), in their original order; 40 entries give exactly 5
\* rows (indices 0, 8, 16, 24, 32), and an empty list gives no row while
\* True is still returned.
C17_Subsampling ==
  (call.op = "display_forecast" /\ API_KEY # ""
     /\ call.net.kind = "response" /\ call.net.status = 200
     /\ call.net.body.kind = "forecast") =>
    LET list == call.net.body.list
        n == Len(list)
    IN  /\ out.ret = Bool(TRUE)
        /\ Len(out.console) = 1
        /\ out.console[1].what = "table"
        /\ Len(out.console[1].rows) = Cardinality(ShownIndices(n))
        /\ \A k \in 1..Len(out.console[1].rows) :
             /\ 8 * (k - 1) \in ShownIndices(n)
             /\ out.console[1].rows[k] = list[8 * (k - 1) + 1]
        /\ n = 40 =>
             out.console[1].rows =
               <<list[1], list[9], list[17], list[25], list[33]>>
        /\ n = 0 => out.console[1].rows = <<>>

\* C17 witness: a forecast of 41 entries was shown as the 5 rows of the
\* indices 0 to 32; the entry at index 40 is beyond the cap.
C17_Witness ==
  /\ call.op = "display_forecast"
  /\ call.net.body.kind = "forecast"
  /\ call.net.body.list = Hours(41, 0, 3)
  /\ out.ret = Bool(TRUE)
  /\ out.console[1].rows = <<0, 24, 48, 72, 96>>

----------------------------------------------------------------------------
\* the two displays, the fetch each calls and the message each prints when
\* the fetch returns None
DisplayOps == {"display_current_weather", "display_forecast"}
FetchOf(op) ==
  IF op = "display_current_weather" THEN "get_current_weather"
  ELSE "get_forecast"
NotFetchedOf(op) ==
  IF op = "display_current_weather" THEN "could not fetch weather"
  ELSE "could not fetch forecast"

\* what the fetch of a display call returned
FetchedBy(c) ==
  IF c.op = "display_current_weather"
  THEN get_current_weather(c.city, API_KEY, c.net)
  ELSE get_forecast(c.city, API_KEY, c.net)

\* a payload with every field the display of op reads
WellFormed(op, v) ==
  v.kind = IF op = "display_current_weather" THEN "snapshot" ELSE "forecast"

\* C18.  display_current_weather(city) and display_forecast(city) call
\* their fetch exactly once, with the city given; when the fetch returns
\* None they return False and print the one could-not-fetch message naming
\* the city, the same whatever made the fetch return None; when it returns
\* a well-formed payload they return True.
C18_AbsentUniform ==
  call.op \in DisplayOps =>
    /\ out.fetches = <<FetchCall(FetchOf(call.op), call.city)>>
    /\ Absent(FetchedBy(call)) =>
         /\ out.ret = Bool(FALSE)
         /\ out.exc = "none"
         /\ out.console = <<Printed(NotFetchedOf(call.op), call.city, <<>>)>>
    /\ (FetchedBy(call).exc = "none"
          /\ WellFormed(call.op, FetchedBy(call).ret)) =>
         out.ret = Bool(TRUE) /\ out.exc = "none"

\* C18 witness: display_forecast of a city the provider answered with HTTP
\* 500 returned False after the could-not-fetch message, having called
\* get_forecast once with that city.
C18_Witness ==
  /\ call.op = "display_forecast"
  /\ call.city = <<" ", "a">>
  /\ call.net = Response(500, EmptyObject)
  /\ out.ret = Bool(FALSE)
  /\ out.fetches = <<FetchCall("get_forecast", <<" ", "a">>)>>
  /\ out.console = <<Printed("could not fetch forecast", <<" ", "a">>, <<>>)>>

----------------------------------------------------------------------------
\* the operations of the favorites flags a command line gives, a flag being
\* given when it is on the command line, whatever its value
GivenOps(a) ==
  (IF a.add_favorite # NoArg THEN {"save_favorite"} ELSE {})
  \cup (IF a.remove_favorite # NoArg THEN {"remove_favorite"} ELSE {})
  \cup (IF a.list_favorites THEN {"display_favorites"} ELSE {})
  \cup (IF a.favorites THEN {"weather_for_favorites"} ELSE {})

\* the value a command line gives to the flag of an operation
FlagValue(a, fn) ==
  CASE fn = "save_favorite" -> a.add_favorite
    [] fn = "remove_favorite" -> a.remove_favorite
    [] OTHER -> NoArg

\* the display a command line with a city asks for
DisplayAsked(a) ==
  IF a.forecast THEN "display_forecast" ELSE "display_current_weather"

\* main invoked one operation, once: fn with the argument arg
InvokedOnly(o, fn, arg) == o.invoked = <<FetchCall(fn, arg)>>

\* the exit code after a display: 0 if it returned True, 1 otherwise
DisplayCode(o) ==
  IF o.results[1] = Bool(TRUE) THEN ExitCode(0) ELSE ExitCode(1)

\* C19 as claimed.  main(): with no command-line argument it runs
\* interactive_mode and returns its result; with an add, remove, list or
\* show-favorites flag it invokes exactly that one operation, once, and
\* returns 0 whatever the operation's boolean result; with a city (and
\* optionally the forecast flag) it invokes exactly one of
\* display_current_weather and display_forecast and returns 0 if that
\* reported success and 1 otherwise.  (Read for every run in which the
\* operation invoked raised nothing.)
C19_Dispatch ==
  (call.op = "main" /\ out.exc = "none") =>
    /\ call.args.argc = 1 =>
         /\ InvokedOnly(out, "interactive_mode", NoArg)
         /\ out.ret = out.results[1]
    /\ (call.args.argc # 1 /\ GivenOps(call.args) # {}) =>
         /\ \E fn \in GivenOps(call.args) :
              InvokedOnly(out, fn, FlagValue(call.args, fn))
         /\ out.ret = ExitCode(0)
    /\ ( /\ call.args.argc # 1 /\ GivenOps(call.args) = {}
         /\ (call.args.city_name # NoArg \/ call.args.city # NoArg) ) =>
         /\ \E city \in {call.args.city_name, call.args.city} :
              city # NoArg /\ InvokedOnly(out, DisplayAsked(call.args), city)
         /\ out.ret = DisplayCode(out)

\* the operation main runs for a command line with arguments, in the claim's
\* words: the first of add, remove, list, show-favorites whose flag has a
\* value that counts (a non-empty string, or a switch that is set); without
\* one, the display of the city (the positional one, or that of -c when the
\* positional one is missing or empty); without a city, the help text
Chosen(a) ==
  IF a.add_favorite \notin {NoArg, <<>>}
  THEN FetchCall("save_favorite", a.add_favorite)
  ELSE IF a.remove_favorite \notin {NoArg, <<>>}
  THEN FetchCall("remove_favorite", a.remove_favorite)
  ELSE IF a.list_favorites THEN FetchCall("display_favorites", NoArg)
  ELSE IF a.favorites THEN FetchCall("weather_for_favorites", NoArg)
  ELSE IF a.city_name \notin {NoArg, <<>>}
  THEN FetchCall(DisplayAsked(a), a.city_name)
  ELSE IF a.city \notin {NoArg, <<>>}
  THEN FetchCall(DisplayAsked(a), a.city)
  ELSE FetchCall("print_help", NoArg)

\* C19 as amended.  An option given an empty string counts as not given,
\* and the flags are looked at in the order add, remove, list, show
\* favorites, city.  With no command-line argument main runs
\* interactive_mode and returns its result; otherwise it invokes exactly one
\* operation, once: that of the first flag that counts, returning 0
\* whatever that operation returned; or the display asked for of the city,
\* returning 0 if the display returned True and 1 if it returned False; or
\* the help text, returning 0.  An exception of the operation invoked
\* escapes main, which then returns nothing.
C19_DispatchNonEmpty ==
  call.op = "main" =>
    /\ Len(out.invoked) = 1 /\ Len(out.results) = 1
    /\ call.args.argc = 1 =>
         /\ InvokedOnly(out, "interactive_mode", NoArg)
         /\ out.exc = "none" => out.ret = out.results[1]
    /\ call.args.argc # 1 =>
         /\ out.invoked = <<Chosen(call.args)>>
         /\ out.exc = "none" =>
              out.ret =
                IF Chosen(call.args).fn \in DisplayOps THEN DisplayCode(out)
                ELSE ExitCode(0)
    /\ out.exc # "none" => out.ret = None

\* C19 witness: the add flag led to save_favorite alone, which returned
\* False for a name already stored, and main returned 0; the city that was
\* also on the command line was not displayed.
C19_Witness ==
  /\ call.op = "main"
  /\ call.args.add_favorite = <<"a">>
  /\ call.args.city_name = London
  /\ out.invoked = <<FetchCall("save_favorite", <<"a">>)>>
  /\ out.results = <<Bool(FALSE)>>
  /\ out.ret = ExitCode(0)
  /\ doc = prev

----------------------------------------------------------------------------
\* C20.  The favorites document has no lock: a save writes the list its
\* process computed from its own, earlier, load and so overwrites whatever
\* the other processes saved since (last writer wins).  When the loads and
\* saves of add("a") by process 1 and add("i") by process 2 interleave on
\* an empty store (load, load, save, save, no write failing), both calls
\* return True and the persisted list holds the name of the later save
\* alone: the update of process 1 is lost.  The step is a save.
C20_LastWriterWinsStep ==
  \A p \in Procs :
    (proc[p].pc = "saving" /\ proc'[p].pc = "done") =>
      /\ proc'[p].ret = "True"
      /\ doc' \in {FavoritesDoc(proc[p].towrite), MalformedDoc, doc}
      /\ scenario' = "lost" =>
           /\ proc'[1].op = "add" /\ proc'[1].ret = "True"
           /\ proc'[2].op = "add" /\ proc'[2].ret = "True"
           /\ StoredList(doc') = << <<"I">> >>
           /\ CountIdentity(StoredList(doc'), StoredIdentity(<<"a">>)) = 0

\* C20, over every save step of every process: the saver's list replaces
\* the document, and at the end of the race of the two adds only the later
\* name is stored although both calls returned True.
C20_LastWriterWins == [][C20_LastWriterWinsStep]_vars

\* C20 witness: the race has run, both adds returned True, and the document
\* holds I alone.
C20_Witness ==
  /\ scenario = "lost"
  /\ proc[1] = Process("done", "add", <<"a">>, <<>>, "True")
  /\ proc[2] = Process("done", "add", <<"i">>, <<>>, "True")
  /\ doc = FavoritesDoc(<< <<"I">> >>)

\* The temperature formatted, and the text returned.
Formatted == call.op = "format_temperature"

\* the digit a character stands for
DigitOf(c) == CHOOSE d \in 0..9 : DigitChars[d + 1] = c

\* the natural number a run of digits denotes
RECURSIVE NumberOf(_)
NumberOf(s) ==
  IF s = <<>> THEN 0
  ELSE 10 * NumberOf(SubSeq(s, 1, Len(s) - 1)) + DigitOf(s[Len(s)])

IsDigits(s) ==
  /\ s # <<>>
  /\ \A k \in 1..Len(s) : \E d \in 0..9 : DigitChars[d + 1] = s[k]

\* The text is the temperature with exactly one decimal place and the unit:
\* a minus sign exactly for a negative float, digits, a point, one digit,
\* the degree sign and the unit letter; the number written is the
\* temperature to the nearest tenth.
OneDecimalWithUnit(temp, s, unit) ==
  LET first == IF temp.neg THEN 2 ELSE 1
      n == Len(s)
  IN  /\ n >= first + 4
      /\ temp.neg => s[1] = "-"
      /\ IsDigits(SubSeq(s, first, n - 4))
      /\ s[n - 3] = "."
      /\ IsDigits(<<s[n - 2]>>)
      /\ s[n - 1] = DEGREE
      /\ s[n] = unit
      /\ LET tenths == 10 * NumberOf(SubSeq(s, first, n - 4)) + DigitOf(s[n - 2])
         IN  /\ 100 * tenths - temp.milli <= 50
             /\ temp.milli - 100 * tenths <= 50

----------------------------------------------------------------------------
\* C22.  A true result of add(name) implies that the persisted document
\* holds the normalized name right after the call, also when the write can
\* fail; and a write that fails during add or remove is signalled to the
\* caller as a failure: the call does not return true.
C22_WriteFailureSignalled ==
  /\ (lastOp = "add" /\ lastRet.res = "True") =>
       CountIdentity(StoredList(doc), StoredIdentity(lastCity)) > 0
  /\ (lastOp \in {"add", "remove"} /\ lastIo \in {"open_fail", "write_fail"}) =>
       lastRet.res # "True"

----------------------------------------------------------------------------
\* no two entries of favorites have the same lowercase form
NoTwoAlike(favorites) ==
  \A k \in 1..Len(favorites) :
    CountIdentity(favorites, str_lower(favorites[k])) = 1

\* C23.  With the processes running add and remove concurrently on the one
\* document, each call a load step followed by a whole-list save step, the
\* persisted list never holds two entries of the same lowercase-folded
\* identity when the initial document held none, and neither does a list a
\* process is about to save, even though updates are lost.
C23_ConcurrentUniqueness ==
  /\ NoTwoAlike(StoredList(doc))
  /\ \A p \in Procs : proc[p].pc = "saving" => NoTwoAlike(proc[p].towrite)

\* C23 witness: process 1 loaded "A" for its add of "i" and is about to
\* save the two entries; meanwhile process 2's remove of "a" has emptied
\* the document and returned True, an update the save will undo.
C23_Witness ==
  /\ proc[1] = Process("saving", "add", <<"i">>, << <<"A">>, <<"I">> >>, "none")
  /\ proc[2] = Process("done", "remove", <<"a">>, <<>>, "True")
  /\ doc = FavoritesDoc(<<>>)

----------------------------------------------------------------------------
\* C24.  Add and remove agree on identity: on a stored list with no entry
\* of the identity of n (the lowercase-folded trimmed name), add(n)
\* returning true followed at once by remove(n) returns true and restores
\* the persisted list to its content before the add, no write failing.  The
\* step is the remove call; the unprimed state records the add, and prev
\* the document before it.
C24_AddThenRemoveStep ==
  ( /\ lastOp = "add" /\ lastRet.res = "True" /\ lastIo = "ok"
    /\ HoldsList(prev)
    /\ CountIdentity(StoredList(prev), Identity(lastCity)) = 0
    /\ lastOp' = "remove"
    /\ lastCity' = lastCity
    /\ lastIo' \notin {"open_fail", "write_fail"} )
  => /\ lastRet'.res = "True"
     /\ StoredList(doc') = StoredList(prev)

\* C24, over every remove call that follows an add of the same name.
C24_AddThenRemove == [][C24_AddThenRemoveStep]_vars

----------------------------------------------------------------------------
\* The favorites menu loop has control.
InSubmenu == call.at \in {"favorites menu", "favorites branch"}

\* The step is the end of input, or an interrupt, at a prompt.
InterruptStep == out'.exc \in {"EOFError", "KeyboardInterrupt"}

\* C25, the steps.  interactive_mode returns, with exit code 0, only from
\* main-menu choice 5.  A main-menu choice 1 to 4 that completes leads to
\* the pause (choice 1 by way of its question, choice 3 by way of the
\* favorites menu), and the pause acknowledged to the main menu shown
\* again.  The favorites menu is shown again after its choices 1 to 3,
\* control goes back to the main loop only on its choice 4, and no choice
\* of the favorites menu ends the program.
C25_MenuLoopStep ==
  /\ (call.at # "returned" /\ call'.at = "returned") =>
       /\ call.at = "main branch" /\ call.choice = "5"
       /\ out'.ret = ExitCode(0) /\ out'.exc = "none"
  /\ (call.at = "main branch" /\ call'.at # "raised") =>
       call'.at = CASE call.choice = "1" -> "confirm"
                    [] call.choice = "3" -> "favorites menu"
                    [] call.choice = "5" -> "returned"
                    [] OTHER -> "pause"
  /\ (call.at = "confirm" /\ call'.at # "raised") => call'.at = "pause"
  /\ (call.at = "pause" /\ ~InterruptStep) => call'.at = "main menu"
  /\ (call.at = "favorites menu" /\ ~InterruptStep) =>
       call'.at = "favorites branch"
  /\ (call.at = "favorites branch" /\ ~InterruptStep) =>
       call'.at = IF call.fav_choice = "4" THEN "pause" ELSE "favorites menu"
  /\ (InSubmenu /\ ~InterruptStep) => call'.at \notin {"returned", "raised"}

\* C25.  The menu loop as above; and once choice 5 is made at the main menu,
\* interactive_mode terminates.
C25_MenuLoop ==
  /\ [][C25_MenuLoopStep]_vars
  /\ (call.at = "main branch" /\ call.choice = "5") ~> (call.at = "returned")

====
